---- MODULE Spec2Model ----
(***************************************************************************)
(* Bare-metal billing: the usage-interval accounting of                    *)
(* bare_metal_billing/billing.py (_clamp_time, _get_running_time,          *)
(* _get_su_type, get_project_invoices) and the ProjectUsage aggregate of   *)
(* bare_metal_billing/models.py.                                           *)
(*                                                                         *)
(* Timestamps are integers (seconds since an arbitrary epoch); the absent  *)
(* expire time (Python None) is the value None.  A Python dict is a        *)
(* sequence of <<key, value>> pairs in insertion order.                    *)
(***************************************************************************)
EXTENDS Integers, Sequences, FiniteSets

VARIABLES
    bm_usage_data,          \* the BMUsageData.root list handed to the call
    start_time,             \* the billing window's start, as passed
    end_time,               \* the billing window's end, as passed
    excluded_given,         \* TRUE when the caller passes a 4th positional argument
    excluded_time_ranges,   \* that argument: a sequence of <<start, end>> ranges
    i,                      \* get_project_invoices: index of the next lease of the loop
    project_usage_dict,     \* get_project_invoices: project name -> ProjectUsage
    log,                    \* the records the module's logger has emitted
    result,                 \* the list get_project_invoices returned
    running_time,           \* the integer _get_running_time returned
    pc,                     \* where the call stands
    raw_input,              \* the lease records handed to BMUsageData.model_validate
    excluded_arg,           \* --excluded-time-ranges as given: a list of ranges, <<>> if none
    su_rates,               \* the SURates table: SU type -> rate
    csv_rows,               \* the data rows InvoiceWriter.write_csv has written
    effective,              \* _get_running_time: its clamped <<start_time, end_time>>
    project_usage           \* a ProjectUsage under mutation

vars == <<bm_usage_data, start_time, end_time, excluded_given,
          excluded_time_ranges, i, project_usage_dict, log, result,
          running_time, pc, raw_input, excluded_arg, su_rates, csv_rows,
          effective, project_usage>>

\* The variables of the steps around the aggregation.
ingestVars == <<raw_input, excluded_arg>>
writerVars == <<su_rates, csv_rows>>

----------------------------------------------------------------------------
(* Bounds of the model *)

\* Timestamps lie on a grid of TimeStep seconds, ticks 0..MaxTick.
TimeStep == 2700
MaxTick == 5
\* Longest lease list handed to get_project_invoices.
MaxLeases == 2

None == -1

Times == {k * TimeStep : k \in 0..MaxTick}

----------------------------------------------------------------------------
(* Python dict helpers: a dict is a sequence of <<key, value>> pairs *)

DictKeys(d) == {d[k][1] : k \in 1..Len(d)}

DictIndex(d, key) == CHOOSE k \in 1..Len(d) : d[k][1] = key

DictGet(d, key, default) ==
    IF key \in DictKeys(d) THEN d[DictIndex(d, key)][2] ELSE default

DictSet(d, key, value) ==
    IF key \in DictKeys(d)
    THEN [d EXCEPT ![DictIndex(d, key)] = <<key, value>>]
    ELSE Append(d, <<key, value>>)

DictSetDefault(d, key, value) ==
    IF key \in DictKeys(d) THEN d ELSE Append(d, <<key, value>>)

DictValues(d) == [k \in 1..Len(d) |-> d[k][2]]

----------------------------------------------------------------------------
(* billing.py: the static tables *)

BM_SU_LIST == <<"BM FC430", "BM FC830", "BM GPUA100SXM4", "BM GPUH100">>

RESOURCE_CLASS_2_SU_MAPPING ==
    << <<"lenovo-sd665nv3-h100", "BM GPUH100">>,
       <<"lenovo-sd650nv2-a100", "BM GPUA100SXM4">>,
       <<"sd650nv2", "BM GPUA100SXM4">>,
       <<"fc430", "BM FC430">>,
       <<"fc830", "BM FC830">> >>

SecondsPerHour == 3600

----------------------------------------------------------------------------
(* billing.py: the pure functions *)

_get_su_type_verbatim(lease_info) == lease_info.resource_class

_get_su_type(lease_info) ==
    LET rc == lease_info.resource_class
    IN  DictGet(RESOURCE_CLASS_2_SU_MAPPING, rc, rc)

_clamp_time_lower_only(time, min_time, max_time) ==
    IF time < min_time THEN min_time ELSE time

_clamp_time(time, min_time, max_time) ==
    LET t1 == IF time < min_time THEN min_time ELSE time
    IN  IF t1 > max_time THEN max_time ELSE t1

\* math.ceil(seconds / 3600): the least integer not below the quotient
\* (the float quotient of two integers of this size rounds to the same side
\* of every integer as the exact one).
math_ceil_floor(seconds, divisor) == seconds \div divisor

math_ceil(seconds, divisor) == -((-seconds) \div divisor)

_get_running_time_window_only(lease_info, start, end) ==
    math_ceil(end - _clamp_time(lease_info.start_time, start, end),
              SecondsPerHour)

_get_running_time_expire_unclamped(lease_info, start, end) ==
    LET st == _clamp_time(lease_info.start_time, start, end)
        en == IF lease_info.expire_time = None
              THEN end
              ELSE lease_info.expire_time
    IN  math_ceil(en - st, SecondsPerHour)

\* The locals start_time and end_time of _get_running_time after its two
\* assignments: the lease's interval clamped to the window.
_running_interval_window_lower(lease_info, start, end) ==
    LET st == _clamp_time(lease_info.start_time, start, end)
        en == IF lease_info.expire_time = None
              THEN end
              ELSE _clamp_time(lease_info.expire_time, start, end)
    IN  <<st, en>>

_running_interval(lease_info, start, end) ==
    LET st == _clamp_time(lease_info.start_time, start, end)
        en == IF lease_info.expire_time = None
              THEN end
              ELSE _clamp_time(lease_info.expire_time, st, end)
    IN  <<st, en>>

_get_running_time(lease_info, start, end) ==
    LET iv == _running_interval(lease_info, start, end)
    IN  math_ceil(iv[2] - iv[1], SecondsPerHour)

----------------------------------------------------------------------------
(* models.py: ProjectUsage *)

ProjectUsage(project_name, su_hours) ==
    [project_name |-> project_name, su_hours |-> su_hours]

add_usage_overwrite(usage, su_type, hours) ==
    [usage EXCEPT !.su_hours = DictSet(usage.su_hours, su_type, hours)]

add_usage(usage, su_type, hours) ==
    LET d0 == DictSetDefault(usage.su_hours, su_type, 0)
    IN  [usage EXCEPT
            !.su_hours = DictSet(d0, su_type, DictGet(d0, su_type, 0) + hours)]

----------------------------------------------------------------------------
(* billing.py: the body of get_project_invoices' loop, one lease *)

InList(x, list) == \E k \in 1..Len(list) : list[k] = x

LogError(lease_info) ==
    [level |-> "ERROR", message |-> "empty project name",
     uuid |-> lease_info.uuid, resource_class |-> lease_info.resource_class]

LogWarning(lease_info) ==
    [level |-> "WARNING", message |-> "Unknown resource class",
     uuid |-> lease_info.uuid, resource_class |-> lease_info.resource_class]

IsUnknown_table_miss(lease_info) ==
    lease_info.resource_class \notin DictKeys(RESOURCE_CLASS_2_SU_MAPPING)

IsUnknown(lease_info) == ~InList(_get_su_type(lease_info), BM_SU_LIST)

LoopLog(lg, lease_info) ==
    LET lg1 == IF lease_info.project = ""
               THEN Append(lg, LogError(lease_info)) ELSE lg
    IN  IF IsUnknown(lease_info)
        THEN Append(lg1, LogWarning(lease_info)) ELSE lg1

LoopBody_reset(dict, lease_info, start, end) ==
    LET project_name == lease_info.project
        su_type == _get_su_type(lease_info)
        su_hours == _get_running_time(lease_info, start, end)
    IN  DictSet(dict, project_name,
                add_usage(ProjectUsage(project_name, <<>>), su_type, su_hours))

LoopBody_skip_empty(dict, lease_info, start, end) ==
    IF lease_info.project = ""
    THEN dict
    ELSE LET project_name == lease_info.project
             d1 == DictSetDefault(dict, project_name,
                                  ProjectUsage(project_name, <<>>))
         IN  DictSet(d1, project_name,
                     add_usage(DictGet(d1, project_name, <<>>),
                               _get_su_type(lease_info),
                               _get_running_time(lease_info, start, end)))

LoopBody(dict, lease_info, start, end) ==
    LET project_name == lease_info.project
        d1 == DictSetDefault(dict, project_name,
                             ProjectUsage(project_name, <<>>))
        su_type == _get_su_type(lease_info)
        su_hours == _get_running_time(lease_info, start, end)
    IN  DictSet(d1, project_name,
                add_usage(DictGet(d1, project_name, <<>>), su_type, su_hours))

----------------------------------------------------------------------------
(* billing.py: InvoiceWriter.write_csv, its data rows *)

InvoiceMonth == "2025-01"

\* One row of csv_rows: the 13 columns of HEADERS.
CsvRow(invoice_month, project_name, su_type, su_hour, rates) ==
    <<invoice_month, project_name, project_name, "", "bm", "", "", "", "",
      su_hour, su_type, DictGet(rates, su_type, 0),
      DictGet(rates, su_type, 0) * su_hour>>

\* The rows of the first n project invoices.
RECURSIVE CsvRows(_, _, _, _)
CsvRows(invoice_month, project_invoices, n, rates) ==
    IF n = 0
    THEN <<>>
    ELSE LET project_invoice == project_invoices[n]
             items == project_invoice.su_hours
         IN  CsvRows(invoice_month, project_invoices, n - 1, rates)
             \o [j \in 1..Len(items) |->
                    CsvRow(invoice_month, project_invoice.project_name,
                           items[j][1], items[j][2], rates)]

\* A row per entry of the rate table instead of per SU type used.
RECURSIVE CsvRowsPerRate(_, _, _, _)
CsvRowsPerRate(invoice_month, project_invoices, n, rates) ==
    IF n = 0
    THEN <<>>
    ELSE LET project_invoice == project_invoices[n]
         IN  CsvRowsPerRate(invoice_month, project_invoices, n - 1, rates)
             \o [j \in 1..Len(rates) |->
                    CsvRow(invoice_month, project_invoice.project_name,
                           rates[j][1],
                           DictGet(project_invoice.su_hours, rates[j][1], 0),
                           rates)]

write_csv_per_rate(invoice_month, project_invoices, rates) ==
    CsvRowsPerRate(invoice_month, project_invoices, Len(project_invoices),
                   rates)

\* Only the SU types the rate table knows get a row.
write_csv_known_only(invoice_month, project_invoices, rates) ==
    SelectSeq(CsvRows(invoice_month, project_invoices, Len(project_invoices),
                      rates),
              LAMBDA row : row[11] \in DictKeys(rates))

write_csv(invoice_month, project_invoices, rates) ==
    CsvRows(invoice_month, project_invoices, Len(project_invoices), rates)

----------------------------------------------------------------------------
(* The inputs *)

ResourceClasses == {"fc430", "sd650nv2", "ChickFilA", "BM FC830"}
Projects == {"", "P1"}
\* <<start tick, expire tick or None>> of the leases of an aggregation run
AggSpans == {<<0, None>>, <<0, 1>>, <<1, 4>>}
\* <<start tick, end tick>> of the windows of an aggregation run
AggWindows == {<<0, 4>>, <<1, 3>>, <<2, 2>>}

Tick(t) == IF t = None THEN None ELSE t * TimeStep

Lease(uuid, rc, project, start, expire) ==
    [uuid |-> uuid, resource |-> "r", resource_class |-> rc,
     project |-> project, start_time |-> start, expire_time |-> expire]

\* Lease lists as BMUsageData holds them after validation: the k-th has UUID k.
LeaseLists(n) ==
    LET Fields == ResourceClasses \X Projects \X AggSpans
    IN  { [k \in 1..n |->
             Lease(k, f[k][1], f[k][2], Tick(f[k][3][1]), Tick(f[k][3][2]))]
          : f \in [1..n -> Fields] }

\* The 4th positional argument of the callers that pass one.
ExcludedArgs ==
    { <<>>,
      << <<1 * TimeStep, 2 * TimeStep>> >>,
      << <<1 * TimeStep, 2 * TimeStep>>, <<3 * TimeStep, 4 * TimeStep>> >>,
      << <<0, MaxTick * TimeStep>> >> }

----------------------------------------------------------------------------
(* get_project_invoices, one call *)

Init ==
    /\ \E n \in 0..MaxLeases : bm_usage_data \in LeaseLists(n)
    /\ \E w \in AggWindows :
          /\ start_time = w[1] * TimeStep
          /\ end_time = w[2] * TimeStep
    /\ excluded_given \in BOOLEAN
    /\ excluded_time_ranges \in (IF excluded_given THEN ExcludedArgs ELSE {<<>>})
    /\ i = 0
    /\ project_usage_dict = <<>>
    /\ log = <<>>
    /\ result = <<>>
    /\ running_time = None
    /\ pc = "call"
    /\ raw_input = <<>>
    /\ excluded_arg = <<>>
    /\ su_rates = <<>>
    /\ csv_rows = <<>>
    /\ effective = <<>>
    /\ project_usage = ProjectUsage("", <<>>)

\* The call binds its arguments: the function takes three positional
\* parameters, so a fourth raises TypeError before the body runs.
GetProjectInvoicesCall ==
    /\ pc = "call"
    /\ IF excluded_given
       THEN /\ pc' = "TypeError"
            /\ UNCHANGED <<i, project_usage_dict>>
       ELSE /\ pc' = "loop"
            /\ i' = 1
            /\ project_usage_dict' = <<>>
    /\ UNCHANGED <<bm_usage_data, start_time, end_time, excluded_given,
                   excluded_time_ranges, log, result, running_time>>
    /\ UNCHANGED <<ingestVars, writerVars, effective, project_usage>>

GetProjectInvoicesLoop ==
    /\ pc = "loop"
    /\ i <= Len(bm_usage_data)
    /\ log' = LoopLog(log, bm_usage_data[i])
    /\ project_usage_dict' =
          LoopBody(project_usage_dict, bm_usage_data[i], start_time, end_time)
    /\ i' = i + 1
    /\ UNCHANGED <<bm_usage_data, start_time, end_time, excluded_given,
                   excluded_time_ranges, result, running_time, pc>>
    /\ UNCHANGED <<ingestVars, writerVars, effective, project_usage>>

GetProjectInvoicesReturn ==
    /\ pc = "loop"
    /\ i > Len(bm_usage_data)
    /\ result' = DictValues(project_usage_dict)
    /\ pc' = "done"
    /\ UNCHANGED <<bm_usage_data, start_time, end_time, excluded_given,
                   excluded_time_ranges, i, project_usage_dict, log,
                   running_time>>
    /\ UNCHANGED <<ingestVars, writerVars, effective, project_usage>>

\* Rate tables: SU type -> rate, a Decimal counted in its smallest unit.
RateTables ==
    { << <<"BM FC430", 2>>, <<"BM FC830", 3>>, <<"BM GPUA100SXM4", 5>>,
         <<"BM GPUH100", 7>> >>,
      << <<"BM FC430", 0>>, <<"BM FC830", 0>>, <<"BM GPUA100SXM4", 0>>,
         <<"BM GPUH100", 0>> >> }

\* Rate tables an InvoiceWriter is built with: also one that lacks SU types.
WriterRateTables == RateTables \cup { << <<"BM FC830", 3>> >> }

\* InvoiceWriter(invoice_month, project_invoices, su_rates, file).write_csv()
\* on the list get_project_invoices returned.
InvoiceWriterWriteCsv ==
    /\ pc = "done"
    /\ su_rates' \in WriterRateTables
    /\ csv_rows' = write_csv(InvoiceMonth, result, su_rates')
    /\ pc' = "written"
    /\ UNCHANGED <<bm_usage_data, start_time, end_time, excluded_given,
                   excluded_time_ranges, i, project_usage_dict, log, result,
                   running_time>>
    /\ UNCHANGED <<ingestVars, effective, project_usage>>

Next ==
    \/ GetProjectInvoicesCall
    \/ GetProjectInvoicesLoop
    \/ GetProjectInvoicesReturn
    \/ InvoiceWriterWriteCsv

Spec == Init /\ [][Next]_vars


----------------------------------------------------------------------------
(* get_project_invoices as a function of its arguments: the loop run over  *)
(* the first n leases of the list                                          *)

RECURSIVE FoldLeases(_, _, _, _)
FoldLeases(leases, n, start, end) ==
    IF n = 0
    THEN <<>>
    ELSE LoopBody(FoldLeases(leases, n - 1, start, end), leases[n], start, end)

get_project_invoices(leases, start, end) ==
    DictValues(FoldLeases(leases, Len(leases), start, end))

----------------------------------------------------------------------------
(* _get_running_time, one call *)

RTLeases ==
    { Lease(1, rc, p, s, e) : rc \in {"fc430", "ChickFilA"}, p \in Projects,
                              s \in Times, e \in Times \cup {None} }

InitRT ==
    /\ \E l \in RTLeases : bm_usage_data = <<l>>
    /\ start_time \in Times
    /\ end_time \in Times
    /\ excluded_given \in BOOLEAN
    /\ excluded_time_ranges \in (IF excluded_given THEN ExcludedArgs ELSE {<<>>})
    /\ i = 0
    /\ project_usage_dict = <<>>
    /\ log = <<>>
    /\ result = <<>>
    /\ running_time = None
    /\ pc = "rt_call"
    /\ raw_input = <<>>
    /\ excluded_arg = <<>>
    /\ su_rates = <<>>
    /\ csv_rows = <<>>
    /\ effective = <<>>
    /\ project_usage = ProjectUsage("", <<>>)

\* The function takes three positional parameters (lease_info, start_time,
\* end_time): a call with a fourth raises TypeError before the body runs.
GetRunningTimeCall ==
    /\ pc = "rt_call"
    /\ IF excluded_given
       THEN /\ pc' = "TypeError"
            /\ UNCHANGED <<running_time, effective>>
       ELSE /\ pc' = "rt_done"
            /\ effective' =
                  _running_interval(bm_usage_data[1], start_time, end_time)
            /\ running_time' =
                  _get_running_time(bm_usage_data[1], start_time, end_time)
    /\ UNCHANGED <<bm_usage_data, start_time, end_time, excluded_given,
                   excluded_time_ranges, i, project_usage_dict, log, result>>
    /\ UNCHANGED <<ingestVars, writerVars, project_usage>>

NextRT == GetRunningTimeCall

SpecRT == InitRT /\ [][NextRT]_vars


----------------------------------------------------------------------------
(* models.py: BMUsageData.validate_expire_time, run by model_validate *)

LogIgnored(node_usage) ==
    [level |-> "WARNING",
     message |-> "Ignoring node lease with Expire Time before Start Time",
     uuid |-> node_usage.uuid, resource_class |-> node_usage.resource_class]

\* <<validated_list, log>> after the first n records of root.
RECURSIVE validate_expire_time_drop_equal(_, _, _)
validate_expire_time_drop_equal(root, n, lg) ==
    IF n = 0
    THEN <<<<>>, lg>>
    ELSE LET before == validate_expire_time_drop_equal(root, n - 1, lg)
             node_usage == root[n]
         IN  IF /\ node_usage.expire_time # None
                /\ node_usage.expire_time <= node_usage.start_time
             THEN <<before[1], Append(before[2], LogIgnored(node_usage))>>
             ELSE <<Append(before[1], node_usage), before[2]>>

RECURSIVE validate_expire_time_loop(_, _, _)
validate_expire_time_loop(root, n, lg) ==
    IF n = 0
    THEN <<<<>>, lg>>
    ELSE LET before == validate_expire_time_loop(root, n - 1, lg)
             node_usage == root[n]
         IN  IF /\ node_usage.expire_time # None
                /\ node_usage.expire_time < node_usage.start_time
             THEN <<before[1], Append(before[2], LogIgnored(node_usage))>>
             ELSE <<Append(before[1], node_usage), before[2]>>

validate_expire_time(root, n, lg) == validate_expire_time_loop(root, n, lg)

\* The records of an input file: well-formed, the k-th with UUID k; a span
\* may expire before it starts.
RawClasses == {"fc430", "ChickFilA"}
RawSpans == {<<0, None>>, <<1, 1>>, <<1, 4>>, <<2, 1>>}

RawLeaseLists(n) ==
    LET Fields == RawClasses \X Projects \X RawSpans
    IN  { [k \in 1..n |->
             Lease(k, f[k][1], f[k][2], Tick(f[k][3][1]), Tick(f[k][3][2]))]
          : f \in [1..n -> Fields] }

\* BMUsageData.model_validate(records), then get_project_invoices on it, as
\* the tests' _get_bm_usage_data and the tests' calls do.
InitIngest ==
    /\ \E n \in 0..MaxLeases : raw_input \in RawLeaseLists(n)
    /\ \E w \in AggWindows :
          /\ start_time = w[1] * TimeStep
          /\ end_time = w[2] * TimeStep
    /\ bm_usage_data = <<>>
    /\ excluded_given = FALSE
    /\ excluded_time_ranges = <<>>
    /\ i = 0
    /\ project_usage_dict = <<>>
    /\ log = <<>>
    /\ result = <<>>
    /\ running_time = None
    /\ pc = "validate"
    /\ excluded_arg = <<>>
    /\ su_rates = <<>>
    /\ csv_rows = <<>>
    /\ effective = <<>>
    /\ project_usage = ProjectUsage("", <<>>)

ModelValidate ==
    /\ pc = "validate"
    /\ LET validated == validate_expire_time(raw_input, Len(raw_input), log)
       IN  /\ bm_usage_data' = validated[1]
           /\ log' = validated[2]
    /\ pc' = "call"
    /\ UNCHANGED <<start_time, end_time, excluded_given, excluded_time_ranges,
                   i, project_usage_dict, result, running_time>>
    /\ UNCHANGED <<ingestVars, writerVars, effective, project_usage>>

NextIngest ==
    \/ ModelValidate
    \/ GetProjectInvoicesCall
    \/ GetProjectInvoicesLoop
    \/ GetProjectInvoicesReturn

SpecIngest == InitIngest /\ [][NextIngest]_vars

----------------------------------------------------------------------------
(* main.py: parse_excluded_time_ranges *)

\* Longest --excluded-time-ranges list.
MaxRanges == 3

\* An argument "<ISO timestamp>,<ISO timestamp>" is the pair of the ticks its
\* two timestamps name; datetime.fromisoformat gives the ticks' times.
parse_time_from_string(time_str) == time_str * TimeStep

\* sorted(intervals, key=lambda x: x[0]) of the first n intervals: stable.
RECURSIVE SortedByStart(_, _)
SortedByStart(intervals, n) ==
    IF n = 0
    THEN <<>>
    ELSE LET before == SortedByStart(intervals, n - 1)
             x == intervals[n]
             at == Cardinality({k \in 1..(n - 1) : before[k][1] <= x[1]})
         IN  [k \in 1..n |->
                IF k <= at THEN before[k]
                ELSE IF k = at + 1 THEN x
                ELSE before[k - 1]]

\* TRUE when check_overlapping_intervals raises ValueError.
check_overlapping_intervals_unsorted(intervals) ==
    \E k \in 2..Len(intervals) : intervals[k][1] < intervals[k - 1][2]

check_overlapping_intervals(intervals) ==
    LET sorted_intervals == SortedByStart(intervals, Len(intervals))
    IN  \E k \in 2..Len(sorted_intervals) :
            sorted_intervals[k][1] < sorted_intervals[k - 1][2]

\* [raised |-> whether ValueError is raised, value |-> the list returned]
parse_excluded_time_ranges(arg_list) ==
    LET time_ranges ==
            [k \in 1..Len(arg_list) |->
                <<parse_time_from_string(arg_list[k][1]),
                  parse_time_from_string(arg_list[k][2])>>]
    IN  IF \E k \in 1..Len(arg_list) :
               time_ranges[k][1] >= time_ranges[k][2]
        THEN [raised |-> TRUE, value |-> <<>>]
        ELSE IF check_overlapping_intervals(time_ranges)
        THEN [raised |-> TRUE, value |-> <<>>]
        ELSE [raised |-> FALSE, value |-> time_ranges]

RangeTicks == {0, 1, 2, 3}

RangeArgLists(n) == [1..n -> RangeTicks \X RangeTicks]

InitParse ==
    /\ \E n \in 0..MaxRanges : excluded_arg \in RangeArgLists(n)
    /\ raw_input = <<>>
    /\ bm_usage_data = <<>>
    /\ start_time = 0
    /\ end_time = 0
    /\ excluded_given = FALSE
    /\ excluded_time_ranges = <<>>
    /\ i = 0
    /\ project_usage_dict = <<>>
    /\ log = <<>>
    /\ result = <<>>
    /\ running_time = None
    /\ pc = "parse"
    /\ su_rates = <<>>
    /\ csv_rows = <<>>
    /\ effective = <<>>
    /\ project_usage = ProjectUsage("", <<>>)

ParseExcludedTimeRanges ==
    /\ pc = "parse"
    /\ LET parsed == parse_excluded_time_ranges(excluded_arg)
       IN  IF parsed.raised
           THEN /\ pc' = "ValueError"
                /\ UNCHANGED excluded_time_ranges
           ELSE /\ pc' = "parsed"
                /\ excluded_time_ranges' = parsed.value
    /\ UNCHANGED <<bm_usage_data, start_time, end_time, excluded_given, i,
                   project_usage_dict, log, result, running_time>>
    /\ UNCHANGED <<ingestVars, writerVars, effective, project_usage>>

NextParse == ParseExcludedTimeRanges

SpecParse == InitParse /\ [][NextParse]_vars

----------------------------------------------------------------------------
(* main.py: main, one run *)

\* --excluded-time-ranges: absent (None, or no range: both are falsy at
\* main.py:141), valid (touching), end before start, overlapping.
MainExcludedArgs ==
    { <<>>,
      << <<0, 1>>, <<1, 2>> >>,
      << <<2, 1>> >>,
      << <<0, 2>>, <<1, 3>> >> }

InitMain ==
    /\ excluded_arg \in MainExcludedArgs
    /\ \E n \in 0..MaxLeases : raw_input \in RawLeaseLists(n)
    /\ \E w \in AggWindows :
          /\ start_time = w[1] * TimeStep
          /\ end_time = w[2] * TimeStep
    /\ bm_usage_data = <<>>
    \* main passes excluded_time_ranges, a list or None, as a 4th argument
    /\ excluded_given = TRUE
    /\ excluded_time_ranges = <<>>
    /\ i = 0
    /\ project_usage_dict = <<>>
    /\ log = <<>>
    /\ result = <<>>
    /\ running_time = None
    /\ pc = "main"
    /\ su_rates = <<>>
    /\ csv_rows = <<>>
    /\ effective = <<>>
    /\ project_usage = ProjectUsage("", <<>>)

\* main.py:139-143
MainParseExcluded ==
    /\ pc = "main"
    /\ IF excluded_arg = <<>>
       THEN /\ pc' = "rates"
            /\ UNCHANGED excluded_time_ranges
       ELSE LET parsed == parse_excluded_time_ranges(excluded_arg)
            IN  IF parsed.raised
                THEN /\ pc' = "ValueError"
                     /\ UNCHANGED excluded_time_ranges
                ELSE /\ pc' = "rates"
                     /\ excluded_time_ranges' = parsed.value
    /\ UNCHANGED <<bm_usage_data, start_time, end_time, excluded_given, i,
                   project_usage_dict, log, result, running_time>>
    /\ UNCHANGED <<ingestVars, writerVars, effective, project_usage>>

\* main.py:145-161: the rates of the command line, validated as SURates
MainRates ==
    /\ pc = "rates"
    /\ su_rates' \in RateTables
    /\ pc' = "validate"
    /\ UNCHANGED <<bm_usage_data, start_time, end_time, excluded_given,
                   excluded_time_ranges, i, project_usage_dict, log, result,
                   running_time>>
    /\ UNCHANGED <<ingestVars, csv_rows, effective, project_usage>>

\* main.py:166 is ModelValidate and main.py:167-169 is GetProjectInvoicesCall
\* with four arguments, which raises TypeError: the loop, the return and
\* InvoiceWriter.write_csv (main.py:171-177) are never reached from here.
NextMain ==
    \/ MainParseExcluded
    \/ MainRates
    \/ ModelValidate
    \/ GetProjectInvoicesCall

SpecMain == InitMain /\ [][NextMain]_vars

----------------------------------------------------------------------------
(* Notions the properties are stated in *)

Min(a, b) == IF a < b THEN a ELSE b
Max(a, b) == IF a > b THEN a ELSE b

\* The lease a _get_running_time call is about.
TheLease == bm_usage_data[1]

\* The effective interval, as the bounds it must lie in.
EffStart(lease_info, ws, we) == Min(Max(lease_info.start_time, ws), we)
EffEnd(lease_info, ws, we) ==
    IF lease_info.expire_time = None
    THEN we
    ELSE Min(Max(lease_info.expire_time, EffStart(lease_info, ws, we)), we)

\* h is the ceiling of seconds / 3600.
IsCeilHours(h, seconds) ==
    /\ h * 3600 >= seconds
    /\ (h - 1) * 3600 < seconds

\* Hours a project's ProjectUsage holds for an SU type; 0 when it has none.
HoursOf(dict, project, su_type) ==
    IF project \in DictKeys(dict)
    THEN DictGet(DictGet(dict, project, <<>>).su_hours, su_type, 0)
    ELSE 0

\* Sum of the billable hours of the first n leases of a project and SU type.
RECURSIVE SumHours(_, _, _, _)
SumHours(leases, n, project, su_type) ==
    IF n = 0
    THEN 0
    ELSE SumHours(leases, n - 1, project, su_type)
         + (IF leases[n].project = project /\ _get_su_type(leases[n]) = su_type
            THEN _get_running_time(leases[n], start_time, end_time)
            ELSE 0)

SUTypes == {_get_su_type(Lease(0, rc, "", 0, None)) : rc \in ResourceClasses}

\* The leases the loop has folded so far.
Folded == IF pc \in {"loop", "done", "written"} THEN 1..(i - 1) ELSE {}

----------------------------------------------------------------------------
(* C1: after every prefix of the fold, the hours of every (project, SU     *)
(* type) pair equal the sum of the billable hours of the folded leases of  *)
(* that project and classified SU type; the aggregate has a pair exactly   *)
(* when a folded lease has it, and every value is an integer >= 0.         *)
C1_AggregateIsSum ==
    pc \in {"loop", "done"} =>
        /\ \A p \in Projects : \A su \in SUTypes :
              HoursOf(project_usage_dict, p, su)
                 = SumHours(bm_usage_data, i - 1, p, su)
        /\ \A k \in 1..Len(project_usage_dict) :
              LET usage == project_usage_dict[k][2]
              IN  /\ usage.project_name = project_usage_dict[k][1]
                  /\ \A j \in 1..Len(usage.su_hours) :
                        /\ usage.su_hours[j][2] \in Nat
                        /\ \E n \in Folded :
                              /\ bm_usage_data[n].project = usage.project_name
                              /\ _get_su_type(bm_usage_data[n])
                                    = usage.su_hours[j][1]
        /\ \A n \in Folded :
              /\ bm_usage_data[n].project \in DictKeys(project_usage_dict)
              /\ _get_su_type(bm_usage_data[n]) \in
                    DictKeys(DictGet(project_usage_dict,
                                     bm_usage_data[n].project, <<>>).su_hours)
        /\ (pc = "done" => result = DictValues(project_usage_dict))

\* Two leases of one project and one SU type, each billed, are both counted.
C1_Witness ==
    /\ pc = "done"
    /\ Len(bm_usage_data) = 2
    /\ bm_usage_data[1].project = bm_usage_data[2].project
    /\ _get_su_type(bm_usage_data[1]) = _get_su_type(bm_usage_data[2])
    /\ _get_running_time(bm_usage_data[1], start_time, end_time) = 1
    /\ _get_running_time(bm_usage_data[2], start_time, end_time) = 3
    /\ Len(result) = 1
    /\ result[1].su_hours = << <<_get_su_type(bm_usage_data[1]), 4>> >>

----------------------------------------------------------------------------
----------------------------------------------------------------------------
(* Exclusions, as the callers pass them and as sections 4.1 and 8 of the   *)
(* specification bill them                                                 *)

\* Seconds of range r inside [lo, hi); 0 when they do not intersect.
Overlap(r, lo, hi) ==
    LET a == Max(r[1], lo)
        b == Min(r[2], hi)
    IN  IF a < b THEN b - a ELSE 0

RECURSIVE SumOverlap(_, _, _, _)
SumOverlap(ranges, n, lo, hi) ==
    IF n = 0 THEN 0
    ELSE SumOverlap(ranges, n - 1, lo, hi) + Overlap(ranges[n], lo, hi)

BillableSeconds(lease_info, ws, we, ranges) ==
    LET lo == EffStart(lease_info, ws, we)
        hi == EffEnd(lease_info, ws, we)
    IN  Max(0, (hi - lo) - SumOverlap(ranges, Len(ranges), lo, hi))

\* The k-th (k in 0..N) sub-interval the ranges, in ascending order, leave of
\* [lo, hi), billed on its own.
GapHours(ranges, k, lo, hi) ==
    LET a == IF k = 0 THEN lo ELSE Max(ranges[k][2], lo)
        b == IF k = Len(ranges) THEN hi ELSE Min(ranges[k + 1][1], hi)
    IN  IF a < b THEN math_ceil(b - a, 3600) ELSE 0

RECURSIVE SumGapHours(_, _, _, _)
SumGapHours(ranges, k, lo, hi) ==
    GapHours(ranges, k, lo, hi)
       + (IF k = 0 THEN 0 ELSE SumGapHours(ranges, k - 1, lo, hi))

\* A call of _get_running_time with excluded ranges has ended.
ExcludedCallEnded == pc \in {"rt_done", "TypeError"} /\ excluded_given

(* C3: with excluded ranges, the call returns the hours of the interval's  *)
(* duration minus the ranges' intersections with it, floored at zero.      *)
C3_ExclusionsSubtracted ==
    ExcludedCallEnded =>
        /\ pc = "rt_done"
        /\ IsCeilHours(running_time,
                       BillableSeconds(TheLease, start_time, end_time,
                                       excluded_time_ranges))

(* C4: with N disjoint excluded ranges, the call returns the sum of the    *)
(* hours of the N + 1 remaining sub-intervals, each billed on its own.     *)
C4_SplitBilling ==
    ExcludedCallEnded =>
        /\ pc = "rt_done"
        /\ running_time =
              SumGapHours(excluded_time_ranges, Len(excluded_time_ranges),
                          EffStart(TheLease, start_time, end_time),
                          EffEnd(TheLease, start_time, end_time))

----------------------------------------------------------------------------
(* C5: a lease fully outside the window (expired at or before its start,   *)
(* or started at or after its end) bills 0 hours.                          *)
LeaseOutsideWindow ==
    \/ TheLease.expire_time # None /\ TheLease.expire_time <= start_time
    \/ TheLease.start_time >= end_time

C5_OutsideWindowIsZero ==
    (pc = "rt_done" /\ LeaseOutsideWindow) => running_time = 0

\* A lease of 3 steps that expired one step before the window opened.
C5_Witness ==
    /\ pc = "rt_done"
    /\ start_time < end_time
    /\ TheLease.expire_time # None
    /\ TheLease.expire_time < start_time
    /\ TheLease.expire_time - TheLease.start_time = 3 * TimeStep
    /\ running_time = 0

----------------------------------------------------------------------------
(* C6: a lease with no expire time runs through the window's end: its      *)
(* hours are the ceiling of (windowEnd - clamp(startTime, windowStart,     *)
(* windowEnd)) / 3600.                                                     *)
C6_OpenEndedRunsToWindowEnd ==
    (pc = "rt_done" /\ TheLease.expire_time = None) =>
        IsCeilHours(running_time,
                    end_time - Min(Max(TheLease.start_time, start_time),
                                   end_time))

\* An open-ended lease that started inside the window bills to its end.
C6_Witness ==
    /\ pc = "rt_done"
    /\ TheLease.expire_time = None
    /\ start_time < TheLease.start_time
    /\ TheLease.start_time < end_time
    /\ running_time = 3

----------------------------------------------------------------------------
----------------------------------------------------------------------------
(* Order of the input list *)

Permutations(n) ==
    {f \in [1..n -> 1..n] : \A a, b \in 1..n : f[a] = f[b] => a = b}

Permuted(leases, f) == [k \in 1..Len(leases) |-> leases[f[k]]]

\* Python's == of two dicts: the same keys with the same values, in any order.
DictEq(d1, d2) == {d1[k] : k \in 1..Len(d1)} = {d2[k] : k \in 1..Len(d2)}

\* Python's == of two lists of ProjectUsage: element by element, in order.
ListEq(l1, l2) ==
    /\ Len(l1) = Len(l2)
    /\ \A k \in 1..Len(l1) :
          /\ l1[k].project_name = l2[k].project_name
          /\ DictEq(l1[k].su_hours, l2[k].su_hours)

\* The list as the mapping project -> SU type -> hours.
AsMapping(l) ==
    { <<l[k].project_name, {l[k].su_hours[j] : j \in 1..Len(l[k].su_hours)}>>
      : k \in 1..Len(l) }

(* C8, as stated: the returned list is equal (Python ==) for every         *)
(* permutation of the lease list.                                          *)
C8_SameResultValue ==
    pc = "done" =>
        \A f \in Permutations(Len(bm_usage_data)) :
            ListEq(result,
                   get_project_invoices(Permuted(bm_usage_data, f),
                                        start_time, end_time))

(* C8, amended: for every permutation of the lease list the returned list  *)
(* holds the same projects with the same hours per SU type; only the       *)
(* order of the list (projects as first encountered) may differ.           *)
C8_SameMapping ==
    pc = "done" =>
        \A f \in Permutations(Len(bm_usage_data)) :
            LET other == get_project_invoices(Permuted(bm_usage_data, f),
                                              start_time, end_time)
            IN  /\ AsMapping(result) = AsMapping(other)
                /\ Len(result) = Len(other)

\* Two billed leases of two projects: the swapped list gives the same
\* mapping in another order.
C8_Witness ==
    /\ pc = "done"
    /\ Len(bm_usage_data) = 2
    /\ bm_usage_data[1].project # bm_usage_data[2].project
    /\ result[1].project_name = bm_usage_data[1].project
    /\ result[1].su_hours[1][2] > 0
    /\ result[2].su_hours[1][2] > 0
    /\ LET other == get_project_invoices(<<bm_usage_data[2], bm_usage_data[1]>>,
                                         start_time, end_time)
       IN  /\ other[1].project_name = bm_usage_data[2].project
           /\ AsMapping(other) = AsMapping(result)

----------------------------------------------------------------------------
(* C9: _get_su_type gives the table's SU type for a class of the table and *)
(* the class itself otherwise, never failing, and every folded lease is    *)
(* aggregated under that SU type.                                          *)
ExpectedSUType(rc) ==
    CASE rc = "lenovo-sd665nv3-h100" -> "BM GPUH100"
      [] rc = "lenovo-sd650nv2-a100" -> "BM GPUA100SXM4"
      [] rc = "sd650nv2" -> "BM GPUA100SXM4"
      [] rc = "fc430" -> "BM FC430"
      [] rc = "fc830" -> "BM FC830"
      [] OTHER -> rc

C9_ClassificationTotal ==
    /\ \A n \in 1..Len(bm_usage_data) :
          _get_su_type(bm_usage_data[n])
             = ExpectedSUType(bm_usage_data[n].resource_class)
    /\ \A n \in Folded :
          HoursOf(project_usage_dict, bm_usage_data[n].project,
                  ExpectedSUType(bm_usage_data[n].resource_class))
             >= _get_running_time(bm_usage_data[n], start_time, end_time)
    /\ \A n \in Folded :
          ExpectedSUType(bm_usage_data[n].resource_class) \in
             DictKeys(DictGet(project_usage_dict,
                              bm_usage_data[n].project, <<>>).su_hours)
    /\ (~excluded_given => pc \in {"call", "loop", "done", "written"})

\* An unknown class is aggregated under its own name, a known one under the
\* table's SU type.
C9_Witness ==
    /\ pc = "done"
    /\ Len(bm_usage_data) = 2
    /\ bm_usage_data[1].resource_class = "ChickFilA"
    /\ bm_usage_data[2].resource_class = "sd650nv2"
    /\ bm_usage_data[1].project = "P1"
    /\ bm_usage_data[2].project = "P1"
    /\ HoursOf(project_usage_dict, "P1", "ChickFilA") = 3
    /\ HoursOf(project_usage_dict, "P1", "BM GPUA100SXM4") = 1

----------------------------------------------------------------------------
(* Warnings of the fold *)

Flagged(lease_info) ==
    \E k \in 1..Len(log) :
        /\ log[k].level = "WARNING"
        /\ log[k].message = "Unknown resource class"
        /\ log[k].uuid = lease_info.uuid
        /\ log[k].resource_class = lease_info.resource_class

TableClasses ==
    {"lenovo-sd665nv3-h100", "lenovo-sd650nv2-a100", "sd650nv2", "fc430",
     "fc830"}

CanonicalSUNames == {"BM FC430", "BM FC830", "BM GPUA100SXM4", "BM GPUH100"}

(* C10, as stated: a folded lease is flagged exactly when its resource     *)
(* class has no entry in the resource-class table.                         *)
C10_FlaggedIffTableMiss ==
    \A n \in Folded :
        Flagged(bm_usage_data[n])
           <=> bm_usage_data[n].resource_class \notin TableClasses

(* C10, amended: a folded lease is flagged exactly when its classified SU  *)
(* type is not in the canonical SU list, that is when its class has no     *)
(* entry in the table and is not itself one of the canonical SU names;     *)
(* leases not yet folded are not flagged.                                  *)
C10_FlaggedIffNotCanonical ==
    /\ \A n \in Folded :
          Flagged(bm_usage_data[n])
             <=> /\ bm_usage_data[n].resource_class \notin TableClasses
                 /\ bm_usage_data[n].resource_class \notin CanonicalSUNames
    /\ \A n \in 1..Len(bm_usage_data) :
          n \notin Folded => ~Flagged(bm_usage_data[n])

\* A class missing from the table is flagged; a class that is a canonical
\* SU name, missing from the table too, is not.
C10_Witness ==
    /\ pc = "done"
    /\ Len(bm_usage_data) = 2
    /\ bm_usage_data[1].resource_class = "ChickFilA"
    /\ bm_usage_data[2].resource_class = "BM FC830"
    /\ Flagged(bm_usage_data[1])
    /\ ~Flagged(bm_usage_data[2])


----------------------------------------------------------------------------
(* C11: validation drops exactly the records whose expire time is present  *)
(* and earlier than their start time, keeps the others (no expire time,    *)
(* expire equal to start) in their order, logs each dropped record, never  *)
(* fails, and no dropped record reaches the aggregation.                   *)
ExpiresBeforeStart(rec) ==
    rec.expire_time # None /\ rec.expire_time < rec.start_time

IgnoredLogged(rec) ==
    \E k \in 1..Len(log) :
        /\ log[k].level = "WARNING"
        /\ log[k].message
              = "Ignoring node lease with Expire Time before Start Time"
        /\ log[k].uuid = rec.uuid

KeptRecord(rec) == ~ExpiresBeforeStart(rec)

C11_IngestionDropsExactly ==
    /\ pc \in {"validate", "call", "loop", "done"}
    /\ pc # "validate" =>
          /\ bm_usage_data = SelectSeq(raw_input, KeptRecord)
          /\ \A n \in 1..Len(raw_input) :
                IgnoredLogged(raw_input[n]) <=> ExpiresBeforeStart(raw_input[n])
          /\ \A n \in Folded : ~ExpiresBeforeStart(bm_usage_data[n])
    /\ pc = "done" =>
          \A p \in Projects : \A su \in SUTypes :
              HoursOf(project_usage_dict, p, su)
                 = SumHours(SelectSeq(raw_input, KeptRecord),
                            Len(SelectSeq(raw_input, KeptRecord)), p, su)

\* A record expiring before its start is dropped, one expiring at its start
\* is kept and aggregated.
C11_Witness ==
    /\ pc = "done"
    /\ Len(raw_input) = 2
    /\ ExpiresBeforeStart(raw_input[1])
    /\ raw_input[2].expire_time = raw_input[2].start_time
    /\ bm_usage_data = <<raw_input[2]>>
    /\ IgnoredLogged(raw_input[1])
    /\ Len(result) = 1


----------------------------------------------------------------------------
(* C12: parse_excluded_time_ranges accepts a list exactly when every range *)
(* has start < end and no two ranges overlap (two identical ranges do, in  *)
(* any input order; ranges that touch do not), and then returns the ranges *)
(* it was given, unmerged and in the given order.                          *)
ArgStart(k) == excluded_arg[k][1] * TimeStep
ArgEnd(k) == excluded_arg[k][2] * TimeStep

ArgsOverlap(j, k) == Max(ArgStart(j), ArgStart(k)) < Min(ArgEnd(j), ArgEnd(k))

ArgsValid ==
    /\ \A k \in 1..Len(excluded_arg) : ArgStart(k) < ArgEnd(k)
    /\ \A j, k \in 1..Len(excluded_arg) : j # k => ~ArgsOverlap(j, k)

C12_ParseAcceptsIffValid ==
    /\ pc \in {"parse", "parsed", "ValueError"}
    /\ pc = "parsed" => ArgsValid
    /\ pc = "ValueError" => ~ArgsValid
    /\ pc = "parsed" =>
          /\ Len(excluded_time_ranges) = Len(excluded_arg)
          /\ \A k \in 1..Len(excluded_arg) :
                excluded_time_ranges[k] = <<ArgStart(k), ArgEnd(k)>>

\* Three ranges given out of order, two of them touching, are accepted and
\* returned as given.
C12_Witness ==
    /\ pc = "parsed"
    /\ Len(excluded_arg) = 3
    /\ ArgStart(1) > ArgStart(2)
    /\ ArgStart(3) < ArgStart(2)
    /\ ArgEnd(2) = ArgStart(1)
    /\ excluded_time_ranges[1][1] > excluded_time_ranges[2][1]


----------------------------------------------------------------------------
(* C13: in a run of main, invalid exclusion ranges abort the run before    *)
(* aggregation starts and before any output is written; with valid (or no) *)
(* exclusion ranges no record anomaly aborts the run: it ends having       *)
(* written the invoice.                                                    *)
MainArgsValid == ArgsValid

MainEnded == pc \in {"ValueError", "TypeError", "ValidationError", "written"}

C13_RunReachesOutput ==
    /\ ~MainArgsValid =>
          /\ pc \in {"main", "ValueError"}
          /\ i = 0
          /\ csv_rows = <<>>
    /\ (MainArgsValid /\ MainEnded) => pc = "written"


----------------------------------------------------------------------------
(* C14: a lease with the empty project name is not dropped: an error is    *)
(* logged for it (and only for such leases) and its hours are added under  *)
(* the empty-string key, so the aggregate's total hours are those of the   *)
(* same leases under a non-empty name.                                     *)
ErrorLogged(lease_info) ==
    \E k \in 1..Len(log) :
        /\ log[k].level = "ERROR"
        /\ log[k].uuid = lease_info.uuid

RECURSIVE TotalOfDict(_, _)
TotalOfDict(su_hours, n) ==
    IF n = 0 THEN 0 ELSE TotalOfDict(su_hours, n - 1) + su_hours[n][2]

RECURSIVE TotalOfList(_, _)
TotalOfList(usages, n) ==
    IF n = 0 THEN 0
    ELSE TotalOfList(usages, n - 1)
         + TotalOfDict(usages[n].su_hours, Len(usages[n].su_hours))

RECURSIVE TotalOfLeases(_, _)
TotalOfLeases(leases, n) ==
    IF n = 0 THEN 0
    ELSE TotalOfLeases(leases, n - 1)
         + _get_running_time(leases[n], start_time, end_time)

\* The lease list with the empty project name replaced by a name of its own.
Named(leases) ==
    [k \in 1..Len(leases) |->
        IF leases[k].project = ""
        THEN [leases[k] EXCEPT !.project = "P0"]
        ELSE leases[k]]

C14_EmptyProjectAggregated ==
    pc \in {"loop", "done"} =>
        /\ \A n \in Folded :
              ErrorLogged(bm_usage_data[n]) <=> bm_usage_data[n].project = ""
        /\ \A n \in Folded :
              bm_usage_data[n].project = "" =>
                 /\ "" \in DictKeys(project_usage_dict)
                 /\ HoursOf(project_usage_dict, "",
                            _get_su_type(bm_usage_data[n]))
                       = SumHours(bm_usage_data, i - 1, "",
                                  _get_su_type(bm_usage_data[n]))
        /\ pc = "done" =>
              /\ TotalOfList(result, Len(result))
                    = TotalOfLeases(bm_usage_data, Len(bm_usage_data))
              /\ LET named == get_project_invoices(Named(bm_usage_data),
                                                   start_time, end_time)
                 IN  TotalOfList(result, Len(result))
                        = TotalOfList(named, Len(named))

\* A billed lease with the empty project name next to one of project P1.
C14_Witness ==
    /\ pc = "done"
    /\ Len(bm_usage_data) = 2
    /\ bm_usage_data[1].project = ""
    /\ bm_usage_data[2].project = "P1"
    /\ ErrorLogged(bm_usage_data[1])
    /\ ~ErrorLogged(bm_usage_data[2])
    /\ Len(result) = 2
    /\ result[1].project_name = ""
    /\ result[1].su_hours[1][2] = 3
    /\ result[2].su_hours[1][2] = 1


----------------------------------------------------------------------------
(* Rows of the invoice *)

RowProject(row) == row[2]
RowHours(row) == row[10]
RowSUType(row) == row[11]
RowRate(row) == row[12]
RowCost(row) == row[13]

\* The rate the table gives an SU type; 0 when it has none.
RateOf(su_type) ==
    IF \E k \in 1..Len(su_rates) : su_rates[k][1] = su_type
    THEN su_rates[CHOOSE k \in 1..Len(su_rates) : su_rates[k][1] = su_type][2]
    ELSE 0

\* Rows of the projects before the k-th.
RECURSIVE RowsBefore(_)
RowsBefore(k) ==
    IF k = 1 THEN 0 ELSE RowsBefore(k - 1) + Len(result[k - 1].su_hours)

(* C15: the data rows are one per (project, SU type) pair of the           *)
(* aggregate, projects in their order and SU types in insertion order,     *)
(* each with the invoice month, the project name twice, cluster "bm", the  *)
(* pair's hours, the SU type, the table's rate or 0, and rate x hours.     *)
C15_RowsPerPair ==
    pc = "written" =>
        /\ Len(csv_rows) = RowsBefore(Len(result) + 1)
        /\ \A k \in 1..Len(result) : \A j \in 1..Len(result[k].su_hours) :
              LET row == csv_rows[RowsBefore(k) + j]
                  su_type == result[k].su_hours[j][1]
                  hours == result[k].su_hours[j][2]
              IN  /\ Len(row) = 13
                  /\ row[1] = "2025-01"
                  /\ row[2] = result[k].project_name
                  /\ row[3] = result[k].project_name
                  /\ row[5] = "bm"
                  /\ \A c \in {4, 6, 7, 8, 9} : row[c] = ""
                  /\ row[10] = hours
                  /\ row[11] = su_type
                  /\ row[12] = RateOf(su_type)
                  /\ row[13] = RateOf(su_type) * hours

\* Two projects: an SU type of the table billed at its rate, an unknown one
\* at rate 0.
C15_Witness ==
    /\ pc = "written"
    /\ Len(result) = 2
    /\ Len(csv_rows) = 2
    /\ RowProject(csv_rows[1]) = "P1"
    /\ RowSUType(csv_rows[1]) = "BM FC430"
    /\ RowHours(csv_rows[1]) = 3
    /\ RowRate(csv_rows[1]) = 2
    /\ RowCost(csv_rows[1]) = 6
    /\ RowProject(csv_rows[2]) = ""
    /\ RowSUType(csv_rows[2]) = "ChickFilA"
    /\ RowHours(csv_rows[2]) = 1
    /\ RowRate(csv_rows[2]) = 0
    /\ RowCost(csv_rows[2]) = 0

----------------------------------------------------------------------------
\* The lease is of the row's project and SU type.
LeaseOfRow(lease_info, row) ==
    /\ lease_info.project = RowProject(row)
    /\ ExpectedSUType(lease_info.resource_class) = RowSUType(row)

(* C16, as stated: no row has zero hours, and no row is for an SU type     *)
(* the project did not use.                                                *)
C16_NoZeroRows ==
    pc = "written" =>
        \A r \in 1..Len(csv_rows) :
            /\ RowHours(csv_rows[r]) # 0
            /\ \E n \in 1..Len(bm_usage_data) :
                  LeaseOfRow(bm_usage_data[n], csv_rows[r])

(* C16, amended: every row is for a (project, SU type) pair that a lease   *)
(* of the list has, so an SU type of the rate table that the project has   *)
(* no lease of produces no row; every such pair has exactly one row, also  *)
(* when its leases bill zero hours in the window (a row of 0 hours and     *)
(* cost 0).                                                                *)
C16_RowsOnlyForLeasedPairs ==
    pc = "written" =>
        /\ \A r \in 1..Len(csv_rows) :
              /\ \E n \in 1..Len(bm_usage_data) :
                    LeaseOfRow(bm_usage_data[n], csv_rows[r])
              /\ RowHours(csv_rows[r]) = 0 => RowCost(csv_rows[r]) = 0
        /\ \A n \in 1..Len(bm_usage_data) :
              Cardinality({r \in 1..Len(csv_rows) :
                              LeaseOfRow(bm_usage_data[n], csv_rows[r])}) = 1

\* A lease that bills nothing in the window has a row of 0 hours; the other
\* SU types of the rate table have none.
C16_Witness ==
    /\ pc = "written"
    /\ Len(bm_usage_data) = 1
    /\ Len(su_rates) = 4
    /\ Len(csv_rows) = 1
    /\ RowHours(csv_rows[1]) = 0
    /\ RowSUType(csv_rows[1]) = "BM FC430"
    /\ RowRate(csv_rows[1]) = 2


----------------------------------------------------------------------------
(* C17: in a window with start <= end the effective interval lies in the   *)
(* window, effStart <= effEnd, with effStart the lease's start clamped to  *)
(* the window and effEnd the window's end for an open-ended lease and the  *)
(* expire time clamped to [effStart, end] otherwise; an expire time before *)
(* the clamped start gives a zero-length interval, and neither the         *)
(* duration nor the hours are negative.                                    *)
C17_EffectiveIntervalInWindow ==
    (pc = "rt_done" /\ start_time <= end_time) =>
        /\ start_time <= effective[1]
        /\ effective[1] <= effective[2]
        /\ effective[2] <= end_time
        /\ effective[1] = EffStart(TheLease, start_time, end_time)
        /\ effective[2] = EffEnd(TheLease, start_time, end_time)
        /\ (/\ TheLease.expire_time # None
            /\ TheLease.expire_time < effective[1])
              => /\ effective[2] = effective[1]
                 /\ running_time = 0
        /\ effective[2] - effective[1] >= 0
        /\ running_time >= 0

\* A lease that expired before the window starts: its start is clamped up
\* to the window's start and the interval collapses there.
C17_Witness ==
    /\ pc = "rt_done"
    /\ start_time = 2 * TimeStep
    /\ end_time = 4 * TimeStep
    /\ TheLease.start_time = 0
    /\ TheLease.expire_time = TimeStep
    /\ effective = <<2 * TimeStep, 2 * TimeStep>>
    /\ running_time = 0


----------------------------------------------------------------------------
(* models.py: a ProjectUsage after construction, under add_usage calls and *)
(* assignments to su_hours                                                 *)

MaxOps == 3

\* PositiveIntField: Field(gt=-1) on an int.
IsPositiveInt(v) == v > -1

\* Validation of a dict[str, PositiveIntField].
ValidSuHours(su_hours) ==
    \A k \in 1..Len(su_hours) : IsPositiveInt(su_hours[k][2])

UsageSUTypes == {"BM FC430", "ChickFilA"}
UsageHours == {-1, 0, 2}

\* Dicts given to the constructor or assigned to su_hours.
SuHoursDicts ==
    { <<>>,
      << <<"BM FC430", 1>> >>,
      << <<"BM FC430", -1>> >>,
      << <<"BM FC430", 0>>, <<"ChickFilA", -2>> >> }

\* ProjectUsage.model_validate of valid data.
InitUsage ==
    /\ \E d \in {x \in SuHoursDicts : ValidSuHours(x)} :
          project_usage = ProjectUsage("P1", d)
    /\ pc = "constructed"
    /\ i = 0
    /\ raw_input = <<>>
    /\ excluded_arg = <<>>
    /\ bm_usage_data = <<>>
    /\ start_time = 0
    /\ end_time = 0
    /\ excluded_given = FALSE
    /\ excluded_time_ranges = <<>>
    /\ project_usage_dict = <<>>
    /\ log = <<>>
    /\ result = <<>>
    /\ running_time = None
    /\ su_rates = <<>>
    /\ csv_rows = <<>>
    /\ effective = <<>>

UsageUnchanged ==
    UNCHANGED <<bm_usage_data, start_time, end_time, excluded_given,
                excluded_time_ranges, project_usage_dict, log, result,
                running_time, ingestVars, writerVars, effective>>

\* usage.add_usage(su_type, hours): the method's parameter annotation is
\* not checked on a call, and the item assignment changes the dict in place,
\* which is not an assignment to a field of the model.
AddUsage ==
    /\ pc \in {"constructed", "added", "assigned", "ValidationError"}
    /\ i < MaxOps
    /\ \E su_type \in UsageSUTypes, hours \in UsageHours :
          project_usage' = add_usage(project_usage, su_type, hours)
    /\ pc' = "added"
    /\ i' = i + 1
    /\ UsageUnchanged

\* usage.su_hours = d: validate_assignment validates the new value and
\* raises ValidationError, leaving the field as it was, when it is invalid.
AssignSuHours ==
    /\ pc \in {"constructed", "added", "assigned", "ValidationError"}
    /\ i < MaxOps
    /\ \E d \in SuHoursDicts :
          IF ValidSuHours(d)
          THEN /\ project_usage' = [project_usage EXCEPT !.su_hours = d]
               /\ pc' = "assigned"
          ELSE /\ project_usage' = project_usage
               /\ pc' = "ValidationError"
    /\ i' = i + 1
    /\ UsageUnchanged

NextUsage == AddUsage \/ AssignSuHours

SpecUsage == InitUsage /\ [][NextUsage]_vars

(* C18: after construction, under any sequence of add_usage calls and      *)
(* assignments, every su_hours value stays >= 0: a mutation that would     *)
(* make one negative is rejected with a validation error and leaves        *)
(* su_hours unchanged.                                                     *)
C18_HoursNeverNegative ==
    pc \in {"constructed", "added", "assigned", "ValidationError"} =>
        \A k \in 1..Len(project_usage.su_hours) :
            project_usage.su_hours[k][2] >= 0

====
